---- MODULE Spec2Model ----
(***************************************************************************)
(* SongStorage (src/main.py): the criteria-based search and the            *)
(* "save list" archive export.  Text is modelled as sequences of           *)
(* one-character strings so that split / strip / lower / ILIKE are         *)
(* computed, not assumed.                                                  *)
(***************************************************************************)
EXTENDS Integers, Sequences, FiniteSets, TLC

\* ------------------------------------------------------------------ bounds
\* Largest number of comma-separated segments in a criteria string.
MaxSegs == 2
\* Largest id the SERIAL column hands out.
MaxSongs == 3

\* ------------------------------------------------------------ text helpers
Uppers == <<"A","B","C","D","E","F","G","H","I","J","K","L","M",
            "N","O","P","Q","R","S","T","U","V","W","X","Y","Z">>
Lowers == <<"a","b","c","d","e","f","g","h","i","j","k","l","m",
            "n","o","p","q","r","s","t","u","v","w","x","y","z">>
Digits == {"0","1","2","3","4","5","6","7","8","9"}

\* str.lower() on one character
LowerChar(c) ==
    IF \E i \in 1..26 : Uppers[i] = c
    THEN Lowers[CHOOSE i \in 1..26 : Uppers[i] = c]
    ELSE c

\* str.lower()
lower(s) == [i \in 1..Len(s) |-> LowerChar(s[i])]

IsSpace(c) == c \in {" ", "\t", "\n"}

\* str.strip(): drop leading and trailing whitespace
RECURSIVE lstrip(_)
lstrip(s) == IF s # <<>> /\ IsSpace(Head(s)) THEN lstrip(Tail(s)) ELSE s

RECURSIVE rstrip(_)
rstrip(s) ==
    IF s # <<>> /\ IsSpace(s[Len(s)]) THEN rstrip(SubSeq(s, 1, Len(s) - 1)) ELSE s

strip(s) == rstrip(lstrip(s))

Contains(s, c) == \E i \in 1..Len(s) : s[i] = c

FirstIndex(s, c) == CHOOSE i \in 1..Len(s) : s[i] = c /\ \A j \in 1..(i - 1) : s[j] # c

\* str.split(sep) without maxsplit: cut at EVERY occurrence of sep
RECURSIVE split(_, _)
split(s, sep) ==
    IF ~Contains(s, sep) THEN <<s>>
    ELSE LET i == FirstIndex(s, sep)
         IN  <<SubSeq(s, 1, i - 1)>> \o split(SubSeq(s, i + 1, Len(s)), sep)

\* sep.join(parts), on sequences of query fragments
RECURSIVE join(_, _)
join(sep, parts) ==
    IF parts = <<>> THEN <<>>
    ELSE IF Len(parts) = 1 THEN <<parts[1]>>
    ELSE <<parts[1], sep>> \o join(sep, Tail(parts))

\* --------------------------------------------------------- field names
ARTIST       == <<"a","r","t","i","s","t">>
SONG_NAME    == <<"s","o","n","g","_","n","a","m","e">>
RELEASE_DATE == <<"r","e","l","e","a","s","e","_","d","a","t","e">>
TAGS         == <<"t","a","g","s">>
FILE_NAME    == <<"f","i","l","e","_","n","a","m","e">>

\* ------------------------------------------------------ query fragments
SelectAll      == "SELECT * FROM songs WHERE "
SelectFileName == "SELECT file_name FROM songs WHERE "
AndSep         == " AND "
ArtistCond     == "artist ILIKE %s"
SongNameCond   == "song_name ILIKE %s"
ReleaseCond    == "release_date = %s"
TagsCond       == "%s = ANY(tags)"
FileNameCond   == "file_name ILIKE %s"
NoCond         == "<none>"

\* f"%{value}%"
Wrap(value) == <<"%">> \o value \o <<"%">>

\* the condition appended for a (lower-cased) key; NoCond is the else branch
ConditionFor(key) ==
    IF key = ARTIST THEN ArtistCond
    ELSE IF key = SONG_NAME THEN SongNameCond
    ELSE IF key = RELEASE_DATE THEN ReleaseCond
    ELSE IF key = TAGS THEN TagsCond
    ELSE IF key = FILE_NAME THEN FileNameCond
    ELSE NoCond

\* ParamFor with the "%" wrapping forgotten for file_name
ParamFor_FileNameUnwrapped(key, value) ==
    IF key \in {ARTIST, SONG_NAME} THEN Wrap(value) ELSE value

\* the parameter appended for a (lower-cased) key
ParamFor(key, value) ==
    IF key \in {ARTIST, SONG_NAME, FILE_NAME} THEN Wrap(value) ELSE value

\* SplitCriterion in the manner of str.partition: a segment without "=" gives
\* the segment and an empty value
SplitCriterion_Partition(criterion) ==
    IF Contains(criterion, "=") THEN split(criterion, "=")
    ELSE <<criterion, <<>>>>

\* criterion.split('=')
SplitCriterion(criterion) == split(criterion, "=")

\* key, value = map(str.strip, criterion.split('=')) : the unpacking raises
\* ValueError unless the split gave exactly two parts
UnpackRaises(parts) == Len(parts) # 2

\* the for loop over criteria.split(','): conditions, params and the printed
\* "Invalid criterion" warnings after the loop, or at the ValueError
RECURSIVE BuildQuery(_, _, _, _)
BuildQuery(segs, conditions, params, warnings) ==
    IF segs = <<>>
    THEN [raised |-> FALSE, conditions |-> conditions, params |-> params,
          warnings |-> warnings]
    ELSE LET parts == SplitCriterion(Head(segs))
         IN  IF UnpackRaises(parts)
             THEN [raised |-> TRUE, conditions |-> conditions, params |-> params,
                   warnings |-> warnings]
             ELSE LET key   == strip(parts[1])
                      value == strip(parts[2])
                      cond  == ConditionFor(lower(key))
                  IN  IF cond # NoCond
                      THEN BuildQuery(Tail(segs), Append(conditions, cond),
                                      Append(params, ParamFor(lower(key), value)),
                                      warnings)
                      ELSE BuildQuery(Tail(segs), conditions, params,
                                      Append(warnings, key))

\* ------------------------------------------------------- the songs table
NULL == <<"N","U","L","L">>

\* 'YYYY-MM-DD', the shape the store accepts for a date parameter
IsDateLiteral(v) ==
    /\ Len(v) = 10
    /\ \A i \in {1, 2, 3, 4, 6, 7, 9, 10} : v[i] \in Digits
    /\ v[5] = "-" /\ v[8] = "-"

\* ILIKE: "%" matches any run of characters, "_" any one character, every
\* other pattern character matches itself ignoring case
RECURSIVE ILike(_, _)
ILike(text, pattern) ==
    IF pattern = <<>> THEN text = <<>>
    ELSE IF Head(pattern) = "%"
         THEN ILike(text, Tail(pattern))
              \/ (text # <<>> /\ ILike(Tail(text), pattern))
    ELSE IF text = <<>> THEN FALSE
    ELSE IF Head(pattern) = "_" THEN ILike(Tail(text), Tail(pattern))
    ELSE LowerChar(Head(pattern)) = LowerChar(Head(text))
         /\ ILike(Tail(text), Tail(pattern))

\* one condition of the WHERE clause, evaluated on a row with its parameter
CondHolds(row, cond, param) ==
    IF cond = ArtistCond THEN ILike(row.artist, param)
    ELSE IF cond = SongNameCond THEN ILike(row.song_name, param)
    ELSE IF cond = FileNameCond THEN ILike(row.file_name, param)
    ELSE IF cond = ReleaseCond
         THEN row.release_date # NULL /\ row.release_date = param
    ELSE IF cond = TagsCond THEN \E t \in 1..Len(row.tags) : row.tags[t] = param
    ELSE FALSE

\* cursor.execute raises DatabaseError: a date parameter the store rejects
ExecuteRaises(conditions, params) ==
    \E i \in 1..Len(conditions) :
        conditions[i] = ReleaseCond /\ ~IsDateLiteral(params[i])

\* the rows the WHERE clause selects: the conditions are joined by AND
Select(table, conditions, params) ==
    {row \in table : \A i \in 1..Len(conditions) :
                        CondHolds(row, conditions[i], params[i])}

\* cursor.fetchall(): the selected rows, in an order the store chooses
RECURSIVE FetchAll(_)
FetchAll(rows) ==
    IF rows = {} THEN {<<>>}
    ELSE UNION {{<<r>> \o s : s \in FetchAll(rows \ {r})} : r \in rows}

\* ------------------------------------------------------------ the state
VARIABLES
    catalog,        \* rows of the songs table
    nextId,         \* the next value of the SERIAL column id
    storage,        \* file names present in the Storage folder
    archive,        \* the file at archive_path
    archiveBefore,  \* the file at archive_path when the command was entered
    pc,             \* "idle", "open", "exists", "write", "done"
    op,             \* the command running
    criteria,       \* its criteria argument
    query,          \* the query text, as a sequence of fragments
    conditions,
    params,
    warnings,       \* keys printed as "Invalid criterion"
    conn,           \* the connection of the command: "none", "open", "closed"
    executed,       \* cursor.execute(query, params) was called
    results,
    idx,            \* position of the for loop over results
    skipped,        \* file names printed as "There is no song"
    outcome         \* the last message printed

vars == <<catalog, nextId, storage, archive, archiveBefore, pc, op, criteria, query,
          conditions, params, warnings, conn, executed, results, idx, skipped,
          outcome>>

NoFile == [exists |-> FALSE, entries |-> <<>>]

Song1 == [id |-> 1, file_name |-> <<"x">>, artist |-> <<"A","b">>,
          song_name |-> <<"b">>,
          release_date |-> <<"1","9","7","7","-","1","0","-","0","7">>,
          tags |-> << <<"a">> >>]
Song2 == [id |-> 2, file_name |-> <<"y">>, artist |-> <<"c">>,
          song_name |-> <<"A","b">>, release_date |-> NULL,
          tags |-> << <<"a","b">>, <<"c">> >>]

\* ------------------------------------------------- the inputs of a command
Eq == <<"=">>
Segments ==
    { ARTIST \o Eq \o <<"a">>,
      <<" ","S","o","n","g","_","N","a","m","e"," ","="," ","B"," ">>,
      SONG_NAME \o Eq \o <<"a","=","b">>,
      ARTIST,
      <<"g","e","n","r","e">> \o Eq \o <<"a">>,
      TAGS \o Eq \o <<"c">>,
      FILE_NAME \o Eq \o <<"_">>,
      RELEASE_DATE \o Eq \o <<"x">> }

RECURSIVE JoinSegments(_)
JoinSegments(segs) ==
    IF Len(segs) = 1 THEN segs[1]
    ELSE segs[1] \o <<",">> \o JoinSegments(Tail(segs))

CriteriaInputs ==
    UNION {{JoinSegments(segs) : segs \in [1..n -> Segments]} : n \in 1..MaxSegs}

Init ==
    /\ catalog = {Song1, Song2}
    /\ nextId = 3
    /\ storage = {Song1.file_name, Song2.file_name}
    /\ archive = NoFile
    /\ archiveBefore = NoFile
    /\ pc = "idle"
    /\ op = "none"
    /\ criteria = <<>>
    /\ query = <<>>
    /\ conditions = <<>>
    /\ params = <<>>
    /\ warnings = <<>>
    /\ conn = "none"
    /\ executed = FALSE
    /\ results = <<>>
    /\ idx = 0
    /\ skipped = <<>>
    /\ outcome = "none"

\* --------------------------------------------------------------- commands
\* HasRows with the test of the fetched rows left out
HasRows_Always(rows) == TRUE

\* `if results:`
HasRows(rows) == rows # <<>>

\* zipf.write(file_path, arcname=file_name): os.stat of a missing file raises
\* FileNotFoundError before anything is appended to the archive
ZipWriteRaises(file_name, folder) == file_name \notin folder

\* ZipWrite appending the entry without looking at the file
ZipWrite_NoStat(zip, file_name, folder) ==
    [zip EXCEPT !.entries = Append(@, file_name)]

ZipWrite(zip, file_name, folder) ==
    IF ZipWriteRaises(file_name, folder) THEN zip
    ELSE [zip EXCEPT !.entries = Append(@, file_name)]

\* connect, build the query, execute it and fetch the rows: the part that
\* search and create_save_list share.  b is the outcome of the loop over the
\* segments, select the SELECT prefix, rows the rows as the store returns them.
QueryPart(c, b, connectFails, select, rows) ==
    LET built   == ~connectFails /\ ~b.raised /\ b.conditions # <<>>
        raises  == built /\ ExecuteRaises(b.conditions, b.params)
    IN  /\ criteria' = c
        /\ archiveBefore' = archive
        /\ conditions' = (IF connectFails THEN <<>> ELSE b.conditions)
        /\ params' = (IF connectFails THEN <<>> ELSE b.params)
        /\ warnings' = (IF connectFails THEN <<>> ELSE b.warnings)
        /\ query' = (IF connectFails THEN <<>>
                     ELSE IF built THEN <<select>> \o join(AndSep, b.conditions)
                     ELSE <<select>>)
        /\ executed' = built
        /\ results' = (IF built /\ ~raises THEN rows ELSE <<>>)
        /\ outcome' = (IF connectFails THEN "InterfaceError"
                       ELSE IF b.raised THEN "ValueError"
                       ELSE IF b.conditions = <<>> THEN "Invalid criteria"
                       ELSE IF raises THEN "DatabaseError"
                       ELSE IF HasRows(rows) THEN "Results found"
                       ELSE "No song found")

\* the loop of lines 319-337 (394-412) on the criteria string c
Parse(c) == BuildQuery(split(c, ","), <<>>, <<>>, <<>>)

\* search(criteria), lines 311-364
Search(c, connectFails) ==
    /\ pc = "idle"
    /\ \E b \in {Parse(c)} :
       \E rows \in FetchAll(Select(catalog, b.conditions, b.params)) :
        /\ QueryPart(c, b, connectFails, SelectAll, rows)
        /\ conn' = (IF connectFails THEN "none"
                    ELSE IF outcome' \in {"Results found", "No song found"}
                         THEN "closed"
                    ELSE "open")
    /\ op' = "search"
    /\ pc' = "done"
    /\ idx' = 0
    /\ skipped' = <<>>
    /\ UNCHANGED <<catalog, nextId, storage, archive>>

\* create_save_list(archive_path, criteria), lines 386-423 and 435-444: up to
\* the test of the fetched rows
CreateSaveList(c, connectFails) ==
    /\ pc = "idle"
    /\ \E b \in {Parse(c)} :
       \E rows \in FetchAll(Select(catalog, b.conditions, b.params)) :
        /\ QueryPart(c, b, connectFails, SelectFileName,
                     [i \in 1..Len(rows) |-> rows[i].file_name])
        /\ conn' = (IF connectFails THEN "none"
                    ELSE IF outcome' = "No song found" THEN "closed"
                    ELSE "open")
    /\ op' = "create_save_list"
    /\ pc' = (IF outcome' = "Results found" THEN "open" ELSE "done")
    /\ idx' = 0
    /\ skipped' = <<>>
    /\ UNCHANGED <<catalog, nextId, storage, archive>>

\* line 424: zipfile.ZipFile(archive_path, 'w') creates or truncates the file
OpenArchive ==
    /\ pc = "open"
    /\ archive' = [exists |-> TRUE, entries |-> <<>>]
    /\ idx' = 1
    /\ pc' = "exists"
    /\ UNCHANGED <<catalog, nextId, storage, archiveBefore, op, criteria, query,
                   conditions, params, warnings, conn, executed, results,
                   skipped, outcome>>

\* line 424 raising OSError: the destination cannot be created
OpenArchiveFails ==
    /\ pc = "open"
    /\ outcome' = "OSError"
    /\ pc' = "done"
    /\ UNCHANGED <<catalog, nextId, storage, archive, archiveBefore, op, criteria,
                   query, conditions, params, warnings, conn, executed,
                   results, idx, skipped>>

\* lines 425-428 and 431-432: the next row; a missing file is reported
ExistsCheck ==
    /\ pc = "exists"
    /\ idx <= Len(results)
    /\ IF results[idx] \in storage
       THEN /\ pc' = "write"
            /\ UNCHANGED <<idx, skipped>>
       ELSE /\ skipped' = Append(skipped, results[idx])
            /\ idx' = idx + 1
            /\ pc' = "exists"
    /\ UNCHANGED <<catalog, nextId, storage, archive, archiveBefore, op, criteria,
                   query, conditions, params, warnings, conn, executed,
                   results, outcome>>

\* lines 429-430; when zipf.write raises, the with block closes the archive
\* and the exception reaches `except Exception`
WriteEntry ==
    /\ pc = "write"
    /\ archive' = ZipWrite(archive, results[idx], storage)
    /\ IF ZipWriteRaises(results[idx], storage)
       THEN /\ outcome' = "FileNotFoundError"
            /\ pc' = "done"
            /\ UNCHANGED idx
       ELSE /\ idx' = idx + 1
            /\ pc' = "exists"
            /\ UNCHANGED outcome
    /\ UNCHANGED <<catalog, nextId, storage, archiveBefore, op, criteria, query,
                   conditions, params, warnings, conn, executed, results,
                   skipped>>

\* line 429 raising OSError while the bytes are copied (disk full)
WriteEntryFails ==
    /\ pc = "write"
    /\ results[idx] \in storage
    /\ outcome' = "OSError"
    /\ pc' = "done"
    /\ UNCHANGED <<catalog, nextId, storage, archive, archiveBefore, op, criteria,
                   query, conditions, params, warnings, conn, executed,
                   results, idx, skipped>>

\* lines 434-439: the loop is over, the archive is closed, the connection too
FinishArchive ==
    /\ pc = "exists"
    /\ idx > Len(results)
    /\ outcome' = "Archive created"
    /\ conn' = "closed"
    /\ pc' = "done"
    /\ UNCHANGED <<catalog, nextId, storage, archive, archiveBefore, op, criteria,
                   query, conditions, params, warnings, executed, results,
                   idx, skipped>>

\* a file of the Storage folder is removed behind the program's back
BlobVanishes(file_name) ==
    /\ file_name \in storage
    /\ storage' = storage \ {file_name}
    /\ UNCHANGED <<catalog, nextId, archive, archiveBefore, pc, op, criteria, query,
                   conditions, params, warnings, conn, executed, results, idx,
                   skipped, outcome>>

\* main, lines 557-558: the command returned, the next one is read
NextCommand ==
    /\ pc = "done"
    /\ pc' = "idle"
    /\ op' = "none"
    /\ criteria' = <<>>
    /\ query' = <<>>
    /\ conditions' = <<>>
    /\ params' = <<>>
    /\ warnings' = <<>>
    /\ conn' = "none"
    /\ executed' = FALSE
    /\ results' = <<>>
    /\ idx' = 0
    /\ skipped' = <<>>
    /\ outcome' = "none"
    /\ archiveBefore' = archive
    /\ UNCHANGED <<catalog, nextId, storage, archive>>

Next ==
    \/ \E c \in CriteriaInputs, f \in BOOLEAN : Search(c, f)
    \/ \E c \in CriteriaInputs, f \in BOOLEAN : CreateSaveList(c, f)
    \/ OpenArchive
    \/ OpenArchiveFails
    \/ ExistsCheck
    \/ WriteEntry
    \/ WriteEntryFails
    \/ FinishArchive
    \/ \E f \in {Song1.file_name, Song2.file_name} : BlobVanishes(f)
    \/ NextCommand

Spec == Init /\ [][Next]_vars

\* ------------------------------------------------ vocabulary of the claims
Segs(c) == split(c, ",")

HasEq(seg) == Contains(seg, "=")

\* the text before, and after, the FIRST "=" of a segment
FieldOf(seg) == lower(strip(SubSeq(seg, 1, FirstIndex(seg, "=") - 1)))
ValueOf(seg) == strip(SubSeq(seg, FirstIndex(seg, "=") + 1, Len(seg)))

Recognized == {ARTIST, SONG_NAME, RELEASE_DATE, TAGS, FILE_NAME}
SubstringFields == {ARTIST, SONG_NAME, FILE_NAME}

CondFragments == {ArtistCond, SongNameCond, ReleaseCond, TagsCond, FileNameCond}
FixedFragments == CondFragments \cup {SelectAll, SelectFileName, AndSep}

FragmentTable ==
    (ARTIST :> ArtistCond) @@ (SONG_NAME :> SongNameCond)
    @@ (RELEASE_DATE :> ReleaseCond) @@ (TAGS :> TagsCond)
    @@ (FILE_NAME :> FileNameCond)

EqCount(seg) == Cardinality({i \in 1..Len(seg) : seg[i] = "="})

\* the segments the loop gets through: those before the first one that does
\* not have exactly one "="
Reached(c) ==
    LET segs == Segs(c)
        bad  == {i \in 1..Len(segs) : EqCount(segs[i]) # 1}
        stop == IF bad = {} THEN Len(segs) + 1
                ELSE CHOOSE i \in bad : \A j \in bad : i <= j
    IN  SubSeq(segs, 1, stop - 1)

IsRecognized(seg) == FieldOf(seg) \in Recognized

\* the accepted criteria, in input order
Accepted(c) == SelectSeq(Reached(c), IsRecognized)

DerivedParam(seg) ==
    IF FieldOf(seg) \in SubstringFields
    THEN <<"%">> \o ValueOf(seg) \o <<"%">>
    ELSE ValueOf(seg)

Placeholders(q) == Cardinality({i \in 1..Len(q) : q[i] \in CondFragments})

Range(s) == {s[i] : i \in 1..Len(s)}

Running == op # "none" /\ conn # "none"

C2_ValueWithEqPreserved ==
    (/\ Running
     /\ \A i \in 1..Len(Segs(criteria)) : HasEq(Segs(criteria)[i])
     /\ \E i \in 1..Len(Segs(criteria)) :
            /\ IsRecognized(Segs(criteria)[i])
            /\ Contains(ValueOf(Segs(criteria)[i]), "="))
        => /\ executed
           /\ \A i \in 1..Len(Segs(criteria)) :
                (/\ IsRecognized(Segs(criteria)[i])
                 /\ Contains(ValueOf(Segs(criteria)[i]), "="))
                    => DerivedParam(Segs(criteria)[i]) \in Range(params)

\* ------------------------------------------------------------------- C3
\* C3: while a command is running, the query text and the condition list
\* hold only fixed fragments, the one the field's table entry names for each
\* accepted criterion; there are as many placeholders as bound parameters;
\* and the i-th parameter is the value of the i-th accepted criterion
\* (between "%" for the substring fields).
C3_ParameterizedQuery ==
    Running =>
        /\ \A i \in 1..Len(query) : query[i] \in FixedFragments
        /\ Placeholders(conditions) = Len(params)
        /\ executed => Placeholders(query) = Len(params)
        /\ Len(params) = Len(Accepted(criteria))
        /\ Len(conditions) = Len(Accepted(criteria))
        /\ \A i \in 1..Len(Accepted(criteria)) :
            /\ i <= Len(params) => params[i] = DerivedParam(Accepted(criteria)[i])
            /\ i <= Len(conditions) =>
                 conditions[i] = FragmentTable[FieldOf(Accepted(criteria)[i])]

C3_Witness ==
    /\ executed /\ Len(params) = 2 /\ params[1] # params[2]
    /\ conditions[1] # conditions[2]
    /\ Len(query) = 4

\* ------------------------------------------------------------------- C4
\* C4 (as claimed): once search or create_save_list has returned, the
\* connection it opened is no longer open, on every exit path.
C4_ConnectionReleased == pc = "done" => conn # "open"

\* ------------------------------------------------------------------- C5
\* C5 (as claimed): a blob that disappears after the query, even between
\* the existence test and the read, costs one skipped record; the assembly
\* goes on to the end and handles every record (written or skipped).
C5_MissingBlobIsSkipped ==
    (pc = "done" /\ op = "create_save_list" /\ results # <<>>
     /\ outcome # "OSError")
        => /\ outcome = "Archive created"
           /\ \A i \in 1..Len(results) :
                results[i] \in Range(archive.entries) \cup Range(skipped)

\* ------------------------------------------------------------------- C6
\* C6 (as claimed): when create_save_list fails while creating or writing
\* the archive, no partially written file is at the destination: there is no
\* file there, or the file that was there before the command.
C6_NoPartialArchive ==
    (pc = "done" /\ op = "create_save_list"
     /\ outcome \in {"OSError", "FileNotFoundError"})
        => (archive = NoFile \/ archive = archiveBefore)

\* ------------------------------------------------------------------- C7
\* the value occurs in the text, ignoring case
SubstringIgnoringCase(value, text) ==
    \E k \in 0..(Len(text) - Len(value)) :
        lower(SubSeq(text, k + 1, k + Len(value))) = lower(value)

Attribute(row, field) ==
    IF field = ARTIST THEN row.artist
    ELSE IF field = SONG_NAME THEN row.song_name
    ELSE row.file_name

\* C7 (as claimed): with one criterion on artist, song_name or file_name,
\* search returns a record exactly when the criterion's value, taken
\* literally, is a substring of that attribute ignoring case.
C7_LiteralSubstringMatch ==
    (/\ pc = "done" /\ op = "search"
     /\ outcome \in {"Results found", "No song found"}
     /\ Len(Accepted(criteria)) = 1
     /\ FieldOf(Accepted(criteria)[1]) \in SubstringFields)
        => \A row \in catalog :
              row \in Range(results)
              <=> SubstringIgnoringCase(ValueOf(Accepted(criteria)[1]),
                      Attribute(row, FieldOf(Accepted(criteria)[1])))

\* ------------------------------------------------------------------- C8
\* C8 (as claimed): when every segment contains "=", the query is executed
\* if and only if some segment's field (trimmed, lower-cased) is recognized;
\* with no recognized field the command reports invalid criteria.
C8_QueryIffRecognizedField ==
    (Running /\ \A i \in 1..Len(Segs(criteria)) : HasEq(Segs(criteria)[i]))
        => /\ executed <=> \E i \in 1..Len(Segs(criteria)) :
                               IsRecognized(Segs(criteria)[i])
           /\ (\A i \in 1..Len(Segs(criteria)) : ~IsRecognized(Segs(criteria)[i]))
                 => (pc = "done" /\ outcome = "Invalid criteria")

\* ------------------------------------------------------------------- C9
\* C9: create_save_list appends an archive entry only for the record the
\* loop is at and only while that record's blob is in Storage; the archive
\* exists all through the loop; and when the loop ends with every matched
\* record skipped, the archive is there with zero entries.
C9_EntriesOnlyForPresentBlobs ==
    [][ /\ (archive'.entries # archive.entries /\ archive'.entries # <<>>)
            => /\ archive'.entries = Append(archive.entries, results[idx])
               /\ results[idx] \in storage
               /\ results[idx] \notin Range(skipped')
        /\ pc' \in {"exists", "write"} => archive'.exists
        /\ (pc' = "done" /\ outcome' = "Archive created"
            /\ results' # <<>> /\ Len(skipped') = Len(results'))
            => archive' = [exists |-> TRUE, entries |-> <<>>] ]_vars

C9_Witness ==
    /\ pc = "done" /\ outcome = "Archive created"
    /\ Len(results) = 2 /\ skipped = results
    /\ storage = {}
    /\ archive = [exists |-> TRUE, entries |-> <<>>]

\* ------------------------------------------------------------------ C10
\* C10: the archive path is created or modified only by a create_save_list
\* whose query returned at least one row; when the query returns zero rows
\* the command ends with "No song found" and the path is as it was.
C10_NoRowsNoArchive ==
    [][ /\ archive' # archive
            => (op' = "create_save_list" /\ executed' /\ results' # <<>>)
        /\ (pc' = "done" /\ op' = "create_save_list" /\ executed'
            /\ outcome' # "DatabaseError" /\ results' = <<>>)
            => (outcome' = "No song found" /\ archive' = archiveBefore') ]_vars

C10_Witness ==
    /\ pc = "done" /\ op = "create_save_list" /\ executed
    /\ outcome = "No song found" /\ results = <<>>
    /\ archiveBefore.exists /\ archiveBefore.entries # <<>>
    /\ archive = archiveBefore

\* ------------------------------------------------------------------ C11
\* a record satisfies a criterion by the matching rule of its field:
\* substring ignoring case, equal date, or exact membership in the tags
Satisfies(row, seg) ==
    IF FieldOf(seg) \in SubstringFields
    THEN SubstringIgnoringCase(ValueOf(seg), Attribute(row, FieldOf(seg)))
    ELSE IF FieldOf(seg) = RELEASE_DATE
    THEN row.release_date # NULL /\ row.release_date = ValueOf(seg)
    ELSE \E t \in 1..Len(row.tags) : row.tags[t] = ValueOf(seg)

SatisfyingAll(c) ==
    {row \in catalog :
        \A i \in 1..Len(Accepted(c)) : Satisfies(row, Accepted(c)[i])}

\* C11 (as claimed): the records search returns, and the files
\* create_save_list fetches, are exactly those of the catalog records that
\* satisfy every accepted criterion; a record satisfying only some of them
\* is never returned.
C11_ExactlyTheRecordsSatisfyingAll ==
    (/\ op \in {"search", "create_save_list"}
     /\ executed /\ outcome # "DatabaseError")
        => IF op = "search"
           THEN Range(results) = SatisfyingAll(criteria)
           ELSE Range(results) = {row.file_name : row \in SatisfyingAll(criteria)}

\* ------------------------------------------------- add_song, delete_song
LastIndex(s, c) == CHOOSE i \in 1..Len(s) : s[i] = c /\ \A j \in (i + 1)..Len(s) : s[j] # c

\* os.path.basename: what follows the last "/"
basename(path) ==
    IF Contains(path, "/") THEN SubSeq(path, LastIndex(path, "/") + 1, Len(path))
    ELSE path

\* os.path.splitext(path)[1]: from the last "." of the base name on, empty
\* when there is none or only dots come before it
splitext1(path) ==
    LET base == basename(path)
    IN  IF ~Contains(base, ".") THEN <<>>
        ELSE IF \A j \in 1..(LastIndex(base, ".") - 1) : base[j] = "." THEN <<>>
        ELSE SubSeq(base, LastIndex(base, "."), Len(base))

SONG_EXTENSIONS ==
    { <<".","w","a","v">>, <<".","m","p","3">>, <<".","f","l","a","c">>,
      <<".","o","g","g">>, <<".","a","i","f","f">>, <<".","m","p","4">> }

DigitValue(c) ==
    CASE c = "0" -> 0 [] c = "1" -> 1 [] c = "2" -> 2 [] c = "3" -> 3
      [] c = "4" -> 4 [] c = "5" -> 5 [] c = "6" -> 6 [] c = "7" -> 7
      [] c = "8" -> 8 [] c = "9" -> 9

RECURSIVE ToInt(_)
ToInt(s) == IF s = <<>> THEN 0 ELSE 10 * ToInt(SubSeq(s, 1, Len(s) - 1)) + DigitValue(s[Len(s)])

IsNumber(s) == s # <<>> /\ \A i \in 1..Len(s) : s[i] \in Digits

\* datetime.strptime(release_date, "%Y-%m-%d") does not raise ValueError
\* (the length of the month is not looked at)
StrptimeOK(release_date) ==
    LET parts == split(release_date, "-")
    IN  /\ Len(parts) = 3
        /\ IsNumber(parts[1]) /\ Len(parts[1]) = 4 /\ ToInt(parts[1]) >= 1
        /\ IsNumber(parts[2]) /\ Len(parts[2]) <= 2 /\ ToInt(parts[2]) \in 1..12
        /\ IsNumber(parts[3]) /\ Len(parts[3]) <= 2 /\ ToInt(parts[3]) \in 1..31

\* the checks of lines 142-158, in order; "ok" when all pass
Validate(song_path, files, artist, song_name, release_date, tags) ==
    IF song_path \notin files THEN "File does not exist"
    ELSE IF lower(splitext1(song_path)) \notin SONG_EXTENSIONS THEN "Not a valid song"
    ELSE IF ~StrptimeOK(release_date) THEN "Invalid date format"
    ELSE IF artist = <<>> \/ song_name = <<>> THEN "Missing artist or song name"
    ELSE IF tags = <<>> \/ \A t \in 1..Len(tags) : strip(tags[t]) = <<>>
         THEN "Missing tags"
    ELSE "ok"

\* the song files on disk outside the Storage folder
SourceFiles ==
    { <<"/","m","/","a",".","m","p","3">>,
      <<"/","n","/","a",".","m","p","3">>,
      <<"/","m","/","d",".","M","P","3">>,
      <<"/","m","/","b",".","t","x","t">> }

PathInputs == SourceFiles \cup { <<"/","m","/","c",".","m","p","3">> }
NameInputs == { <<>>, <<"Q">> }
DateInputs == { <<"1","9","7","7","-","1","0","-","0","7">>,
                <<"1","9","7","7","-","1","3","-","0","7">> }
TagsInputs == { <<>>, << <<" ">> >>, << <<"r">>, <<"p">> >> }

\* add_song(song_path, artist, song_name, release_date, tags), lines 141-183
AddSong(song_path, artist, song_name, release_date, tags, fault) ==
    LET check   == Validate(song_path, SourceFiles, artist, song_name,
                            release_date, tags)
        base    == basename(song_path)
        copies  == base \notin storage
        reached == IF check # "ok" THEN "check"
                   ELSE IF fault = "connect" THEN "connect"
                   ELSE IF fault = "copy" /\ copies THEN "copy"
                   ELSE IF fault = "insert" THEN "insert"
                   ELSE "end"
    IN  /\ pc = "idle"
        /\ nextId <= MaxSongs
        /\ op' = "add_song"
        /\ pc' = "done"
        /\ storage' = (IF reached \in {"insert", "end"}
                       THEN storage \cup {base} ELSE storage)
        /\ catalog' = (IF reached = "end"
                       THEN catalog \cup
                            {[id |-> nextId, file_name |-> base,
                              artist |-> artist, song_name |-> song_name,
                              release_date |-> release_date, tags |-> tags]}
                       ELSE catalog)
        /\ nextId' = (IF reached = "end" THEN nextId + 1 ELSE nextId)
        /\ conn' = (IF reached \in {"check", "connect"} THEN "none"
                    ELSE IF reached = "end" THEN "closed"
                    ELSE "open")
        /\ outcome' = (IF reached = "check" THEN check
                       ELSE IF reached = "connect" THEN "InterfaceError"
                       ELSE IF reached = "copy" THEN "OSError"
                       ELSE IF reached = "insert" THEN "DatabaseError"
                       ELSE "Song added")
        /\ UNCHANGED <<archive, archiveBefore, criteria, query, conditions,
                       params, warnings, executed, results, idx, skipped>>

\* delete_song(song_id), lines 204-233
DeleteSong(song_id, fault) ==
    LET found   == {row \in catalog : row.id = song_id}
        reached == IF fault \in {"connect", "select"} THEN fault
                   ELSE IF found = {} THEN "no song"
                   ELSE IF fault = "delete" THEN "delete"
                   ELSE "end"
    IN  /\ pc = "idle"
        /\ op' = "delete_song"
        /\ pc' = "done"
        /\ storage' = (IF reached \in {"delete", "end"}
                       THEN storage \ {row.file_name : row \in found}
                       ELSE storage)
        /\ catalog' = (IF reached = "end" THEN catalog \ found ELSE catalog)
        /\ conn' = (IF reached = "connect" THEN "none"
                    ELSE IF reached = "end" THEN "closed"
                    ELSE "open")
        /\ outcome' = (IF reached = "connect" THEN "InterfaceError"
                       ELSE IF reached \in {"select", "delete"} THEN "DatabaseError"
                       ELSE IF reached = "no song" THEN "No song with ID"
                       ELSE "Song deleted")
        /\ UNCHANGED <<nextId, archive, archiveBefore, criteria, query,
                       conditions, params, warnings, executed, results, idx,
                       skipped>>

\* main after database_setup and create_folder on a fresh installation
LibraryInit ==
    /\ catalog = {}
    /\ nextId = 1
    /\ storage = {}
    /\ archive = NoFile
    /\ archiveBefore = NoFile
    /\ pc = "idle"
    /\ op = "none"
    /\ criteria = <<>>
    /\ query = <<>>
    /\ conditions = <<>>
    /\ params = <<>>
    /\ warnings = <<>>
    /\ conn = "none"
    /\ executed = FALSE
    /\ results = <<>>
    /\ idx = 0
    /\ skipped = <<>>
    /\ outcome = "none"

\* the commands add_song and delete_song, with nothing else touching the
\* Storage folder
LibraryNext ==
    \/ \E song_path \in PathInputs, artist \in NameInputs,
          song_name \in NameInputs, release_date \in DateInputs,
          tags \in TagsInputs, fault \in {"none", "connect", "copy", "insert"} :
            AddSong(song_path, artist, song_name, release_date, tags, fault)
    \/ \E song_id \in 1..MaxSongs,
          fault \in {"none", "connect", "select", "delete"} :
            DeleteSong(song_id, fault)
    \/ NextCommand

LibrarySpec == LibraryInit /\ [][LibraryNext]_vars

\* ------------------------------------------------------------------ C12
BlobsPresent == \A row \in catalog : row.file_name \in storage

\* C12 (as claimed): with nothing else touching the Storage folder, a
\* successful add_song or delete_song leaves every catalogued record with
\* its blob in Storage whenever that was so before; delete_song never
\* removes a blob another remaining record refers to.
C12_SuccessfulCommandsKeepBlobs ==
    [][ (BlobsPresent /\ pc' = "done"
         /\ outcome' \in {"Song added", "Song deleted"})
            => BlobsPresent' ]_vars
====
